---- MODULE Spec2Model ----
(***************************************************************************)
(* Model of Pool<T> (src/Pool.h): a growable array of stamped records, a   *)
(* FIFO queue of free indices, a stamp counter and a spawned-object count. *)
(*                                                                         *)
(* Encoding notes.                                                         *)
(*  - mRecords is the memory block as a function 0..n-1 -> record; the     *)
(*    pointer being nullptr is the separate flag mRecordsNull (the block   *)
(*    is then empty).                                                      *)
(*  - a record is [mStamp, mObject, mOwner, constructed]: mObject is the    *)
(*    identity of the element whose bits are in the storage (0 = zeroed    *)
(*    memory), mOwner is the Poolable<T>::mOwner member inside that        *)
(*    storage (T derives from Poolable<T>), constructed tells whether a T  *)
(*    has been constructed there and not destructed since.                 *)
(*  - size_t / uint64_t values stay far below 2^64 within the bounds; the  *)
(*    one wrap-around the code can reach, --mSpawnedCount at 0, is kept as *)
(*    the negative representative (-1 stands for 2^64 - 1).                *)
(*  - a null dereference terminates the process (crashed).                 *)
(*  - nodes holds, per element identity, the members of the object that    *)
(*    matter to its destructor: mChildren, the handles it returns to the   *)
(*    pool (PoolableNode of Tests.cpp), and how many times the destructor  *)
(*    of the pool's instance of the element has run. Elements own children *)
(*    only under SpecNodes.                                                *)
(*  - baseSize, issued, epoch, returned, matchedReturns and lastOp are      *)
(*    history variables: they record the calls made (baseSize is the       *)
(*    constructor's argument), the code never reads them.                  *)
(***************************************************************************)
EXTENDS Integers, Sequences, FiniteSets, TLC

\* ---- bounds of the model ----
MaxBase == 2        \* largest baseSize given to the constructor
MaxSpawns == 4      \* successful Spawn calls in one behaviour
MaxClears == 2      \* Clear calls in one behaviour
MaxCapacity == 8    \* capacities beyond this are not allocated
MaxFailedCapacity == 2200000  \* capacities a run of failed growths may reach

\* ---- program constants ----
PoolStamp_NotConstructed == 0
PoolStamp_Free == 1
PoolStamp_Origin == 2
\* Poolable<T>::mOwner: nullptr, and the address of the pool (this)
NullPool == 0
ThisPool == 1
\* GrowRate: the decimal literal 1.618 as a ratio
GrowRateNum == 1618
GrowRateDen == 1000
\* GrowRate: the float the literal 1.618f denotes, 424149 / 2^18
GrowRateMantissa == 424149
GrowRateShift == 18
\* significant bits of a float, the type of GrowRate() and of the product
FloatDigits == 24

VARIABLES mSpawnedCount, mGlobalStamp, mRecords, mRecordsNull, mCapacity,
          mFreeQueue, nodes, crashed, baseSize, issued, epoch, returned,
          matchedReturns, lastOp

vars == <<mSpawnedCount, mGlobalStamp, mRecords, mRecordsNull, mCapacity,
          mFreeQueue, nodes, crashed, baseSize, issued, epoch, returned,
          matchedReturns, lastOp>>

poolVars ==
    <<mSpawnedCount, mGlobalStamp, mRecords, mRecordsNull, mCapacity, mFreeQueue, nodes>>

histVars == <<baseSize, issued, epoch, returned, matchedReturns>>

\* PoolHandle(index, stamp)
PoolHandle(index, stamp) == [mIndex |-> index, mStamp |-> stamp]

\* PoolHandle(): the default-constructed handle
DefaultHandle == PoolHandle(0, PoolStamp_Free)

\* one record of a block that memset has filled with PoolStamp_NotConstructed
ZeroRecord ==
    [mStamp |-> PoolStamp_NotConstructed, mObject |-> 0, mOwner |-> NullPool,
     constructed |-> FALSE]

\* AllocMemory on success: a block of n zeroed records
AllocMemory(n) == [i \in 0..(n - 1) |-> ZeroRecord]

\* the empty block that stands for mRecords = nullptr
NullBlock == AllocMemory(0)

RECURSIVE Pow2(_)
Pow2(n) == IF n = 0 THEN 1 ELSE 2 * Pow2(n - 1)

\* the number of significant bits of n
RECURSIVE BitLen(_)
BitLen(n) == IF n = 0 THEN 0 ELSE 1 + BitLen(n \div 2)

\* a growth by one slot at a time
GrowCapacityByOne(c) == c + 1

\* ceil(mCapacity * GrowRate), or 1 when the capacity is 0. The product is a
\* float: mCapacity (exact as a float below 2^24) times GrowRateMantissa / 2^18,
\* rounded to FloatDigits significant bits, ties to even. The exact product
\* c * GrowRateMantissa is kept as H * 2^11 + L so that no intermediate value
\* leaves 32 bits for c < 2^22; s is the number of bits the rounding drops.
GrowCapacity(c) ==
    IF c = 0 THEN 1
    ELSE LET A == (c \div 2048) * GrowRateMantissa
             B == (c % 2048) * GrowRateMantissa
             H == A + B \div 2048
             L == B % 2048
             bits == IF H = 0 THEN BitLen(L) ELSE BitLen(H) + 11
             s == IF bits > FloatDigits THEN bits - FloatDigits ELSE 0
             Q == IF s >= 11 THEN H \div Pow2(s - 11)
                             ELSE H * Pow2(11 - s) + L \div Pow2(s)
             r == IF s >= 11 THEN (H % Pow2(s - 11)) * 2048 + L
                             ELSE L % Pow2(s)
             half == Pow2(s) \div 2
             rounded == IF s > 0 /\ (r > half \/ (r = half /\ Q % 2 = 1))
                        THEN Q + 1 ELSE Q
         IN  IF s >= GrowRateShift
             THEN rounded * Pow2(s - GrowRateShift)
             ELSE (rounded + Pow2(GrowRateShift - s) - 1) \div Pow2(GrowRateShift - s)

\* the same indices pushed in descending order
RECURSIVE PushRangeDescending(_, _, _)
PushRangeDescending(q, from, to) ==
    IF from >= to THEN q ELSE PushRangeDescending(Append(q, to - 1), from, to - 1)

\* the indices oldCapacity .. newCapacity-1 pushed in ascending order
RECURSIVE PushRange(_, _, _)
PushRange(q, from, to) ==
    IF from >= to THEN q ELSE PushRange(Append(q, from), from + 1, to)

\* a move that leaves the Poolable base of the new object default-initialised
MoveRecordDropsOwner(rec) ==
    [mStamp |-> rec.mStamp, mObject |-> rec.mObject, mOwner |-> NullPool,
     constructed |-> TRUE]

\* PoolRecord's implicit move constructor: the stamp is copied and T is
\* move-constructed from the old object, its Poolable base (mOwner) included
MoveRecord(rec) ==
    [mStamp |-> rec.mStamp, mObject |-> rec.mObject, mOwner |-> rec.mOwner,
     constructed |-> TRUE]

\* a migration loop that moves nothing: the new block stays zeroed
MoveRecordsNone(old, oldCapacity, newCapacity) ==
    [i \in 0..(newCapacity - 1) |-> ZeroRecord]

\* the migration loop of Spawn: every record of the old block whose stamp is
\* not NotConstructed is move-constructed at the same index of the new block
MoveRecords(old, oldCapacity, newCapacity) ==
    [i \in 0..(newCapacity - 1) |->
        IF i < oldCapacity /\ old[i].mStamp # PoolStamp_NotConstructed
        THEN MoveRecord(old[i])
        ELSE ZeroRecord]

\* MakeStamp: the value returned, and the counter after the post-increment
MakeStamp == mGlobalStamp

\* a counter that MakeStamp reads without incrementing
NextStampStuck(s) == s

NextStamp(s) == s + 1

\* the handle values a caller can hold: the default one and those Spawn issued
HandleValues ==
    {DefaultHandle} \cup {PoolHandle(issued[e].mIndex, issued[e].mStamp) : e \in DOMAIN issued}

HandleOf(e) == PoolHandle(issued[e].mIndex, issued[e].mStamp)

\* the elements spawned since the last Clear
CurrentElems == {e \in DOMAIN issued : issued[e].epoch = epoch}

Call(op, h, grew, ret) == [op |-> op, h |-> h, grew |-> grew, ret |-> ret]

\* the members of a PoolableNode that has just been constructed
NoNode == [mChildren |-> <<>>, destructed |-> 0]

Init ==
    \E n \in 0..MaxBase :
        /\ baseSize = n
        /\ nodes = [e \in 1..MaxSpawns |-> NoNode]
        /\ mSpawnedCount = 0
        /\ mGlobalStamp = PoolStamp_Origin
        /\ mCapacity = n
        /\ mRecords = AllocMemory(n)
        /\ mRecordsNull = FALSE
        /\ mFreeQueue = PushRange(<<>>, 0, n)
        /\ crashed = FALSE
        /\ issued = <<>>
        /\ epoch = 0
        /\ returned = {}
        /\ matchedReturns = 0
        /\ lastOp = Call("Pool", DefaultHandle, FALSE, "ok")

\* ---- Spawn (Pool.h 226-274) ----

\* a free index taken from the back of the queue
GetFreeIndexNewest(queue) == queue[Len(queue)]

\* GetFreeIndex: the front of the queue (which the caller then pops)
GetFreeIndex(queue) == Head(queue)

\* lines 261-273: pop a free index, construct the record with a fresh stamp,
\* set the new object's mOwner to this pool, count it and return the handle. recs/queue/cap are the block, the queue and
\* the capacity after the growth branch (or the current ones without growth).
SpawnInto(recs, queue, cap, grew) ==
    LET index == GetFreeIndex(queue)
        elem == Len(issued) + 1
        stamp == MakeStamp
        handle == PoolHandle(index, stamp)
    IN  /\ mFreeQueue' = Tail(queue)
        /\ mRecords' = [recs EXCEPT ![index] =
                            [mStamp |-> stamp, mObject |-> elem, mOwner |-> ThisPool,
                             constructed |-> TRUE]]
        /\ mRecordsNull' = FALSE
        /\ mCapacity' = cap
        /\ mGlobalStamp' = NextStamp(mGlobalStamp)
        /\ mSpawnedCount' = mSpawnedCount + 1
        /\ issued' = Append(issued, [mIndex |-> index, mStamp |-> stamp, epoch |-> epoch])
        /\ lastOp' = Call("Spawn", handle, grew, "ok")
        /\ UNCHANGED <<nodes, crashed, baseSize, epoch, returned, matchedReturns>>

\* the free queue is not empty: no growth
SpawnReuse ==
    /\ ~crashed
    /\ Len(issued) < MaxSpawns
    /\ mFreeQueue # <<>>
    /\ SpawnInto(mRecords, mFreeQueue, mCapacity, FALSE)

\* the free queue is empty and MemoryAlloc succeeds: lines 231-260, then 261-273.
\* DestroyObjects(old, oldCapacity) runs the destructors of the moved-from
\* objects of the old block and frees it; nothing of it remains in the pool.
SpawnGrow ==
    /\ ~crashed
    /\ Len(issued) < MaxSpawns
    /\ mFreeQueue = <<>>
    /\ GrowCapacity(mCapacity) <= MaxCapacity
    /\ ~(mRecordsNull /\ mCapacity > 0)
    /\ LET oldCapacity == mCapacity
           newCapacity == GrowCapacity(mCapacity)
       IN  SpawnInto(MoveRecords(mRecords, oldCapacity, newCapacity),
                     PushRange(mFreeQueue, oldCapacity, newCapacity),
                     newCapacity, TRUE)

\* a failed growth that gives the capacity up instead of keeping the new one
SpawnBadAllocResets ==
    /\ ~crashed
    /\ mFreeQueue = <<>>
    /\ GrowCapacity(mCapacity) <= MaxCapacity
    /\ mCapacity' = 0
    /\ mRecords' = NullBlock
    /\ mRecordsNull' = TRUE
    /\ lastOp' = Call("Spawn", DefaultHandle, FALSE, "bad_alloc")
    /\ UNCHANGED <<mSpawnedCount, mGlobalStamp, mFreeQueue, nodes, crashed>>
    /\ UNCHANGED histVars

\* the free queue is empty and MemoryAlloc returns null: mCapacity (line 234/238)
\* and mRecords (line 440) are already assigned when AllocMemory throws
SpawnBadAlloc ==
    /\ ~crashed
    /\ mFreeQueue = <<>>
    /\ GrowCapacity(mCapacity) <= MaxCapacity
    /\ mCapacity' = GrowCapacity(mCapacity)
    /\ mRecords' = NullBlock
    /\ mRecordsNull' = TRUE
    /\ lastOp' = Call("Spawn", DefaultHandle, FALSE, "bad_alloc")
    /\ UNCHANGED <<mSpawnedCount, mGlobalStamp, mFreeQueue, nodes, crashed>>
    /\ UNCHANGED histVars

\* the same failed growth at capacities too large for the model to allocate:
\* a run of Spawn calls that each throw bad_alloc keeps raising mCapacity
SpawnBadAllocFar ==
    /\ ~crashed
    /\ mFreeQueue = <<>>
    /\ GrowCapacity(mCapacity) > MaxCapacity
    /\ GrowCapacity(mCapacity) <= MaxFailedCapacity
    /\ mCapacity' = GrowCapacity(mCapacity)
    /\ mRecords' = NullBlock
    /\ mRecordsNull' = TRUE
    /\ lastOp' = Call("Spawn", DefaultHandle, FALSE, "bad_alloc")
    /\ UNCHANGED <<mSpawnedCount, mGlobalStamp, mFreeQueue, nodes, crashed>>
    /\ UNCHANGED histVars

\* growth of a pool whose mRecords is null while oldCapacity > 0 (the state a
\* bad_alloc leaves): the migration loop reads old[0] through a null pointer
SpawnNullDeref ==
    /\ ~crashed
    /\ mFreeQueue = <<>>
    /\ mRecordsNull /\ mCapacity > 0
    /\ crashed' = TRUE
    /\ lastOp' = Call("Spawn", DefaultHandle, FALSE, "crash")
    /\ UNCHANGED poolVars
    /\ UNCHANGED histVars

\* ---- Return (Pool.h 280-293) ----

\* a Return that destructs, counts down and pushes but leaves the stamp
ReturnRecordKeepsStamp(index) ==
    /\ mRecords' = [mRecords EXCEPT ![index] =
                        [mStamp |-> @.mStamp, mObject |-> @.mObject, mOwner |-> @.mOwner,
                         constructed |-> FALSE]]
    /\ mSpawnedCount' = mSpawnedCount - 1
    /\ mFreeQueue' = Append(mFreeQueue, index)
    /\ UNCHANGED <<mGlobalStamp, mRecordsNull, mCapacity, nodes>>

\* lines 286-291 applied to the record at index: mark Free, destruct, count
\* down, push the index
ReturnRecord(index) ==
    /\ mRecords' = [mRecords EXCEPT ![index] =
                        [mStamp |-> PoolStamp_Free, mObject |-> @.mObject,
                         mOwner |-> @.mOwner, constructed |-> FALSE]]
    /\ mSpawnedCount' = mSpawnedCount - 1
    /\ mFreeQueue' = Append(mFreeQueue, index)
    /\ UNCHANGED <<mGlobalStamp, mRecordsNull, mCapacity, nodes>>

\* the history of a Return(handle) call on a readable record: the handle is
\* remembered, and the call is counted when the handle is one Spawn issued
\* (its stamp is no sentinel) and carries the record's current stamp
ReturnHistory(handle) ==
    /\ returned' = returned \cup {handle}
    /\ matchedReturns' =
          IF handle.mStamp >= PoolStamp_Origin /\ mRecords[handle.mIndex].mStamp = handle.mStamp
          THEN matchedReturns + 1 ELSE matchedReturns
    /\ UNCHANGED <<baseSize, issued, epoch>>

\* the test of line 284: the record is released unless it is already Free
ShouldRelease(rec, handle) == rec.mStamp # PoolStamp_Free

\* Return(handle), handle.mIndex < mCapacity (the assert of line 282)
Return(handle) ==
    /\ ~crashed
    /\ handle.mIndex < mCapacity
    /\ ~mRecordsNull
    /\ LET rec == mRecords[handle.mIndex]
       IN  IF ShouldRelease(rec, handle)
           THEN \* ~T() on storage that holds no constructed T is undefined:
                \* it either does nothing visible or the process dies
                \/ /\ ReturnRecord(handle.mIndex)
                   /\ ReturnHistory(handle)
                   /\ lastOp' = Call("Return", handle, FALSE, "ok")
                   /\ UNCHANGED crashed
                \/ /\ ~rec.constructed
                   /\ crashed' = TRUE
                   /\ lastOp' = Call("Return", handle, FALSE, "crash")
                   /\ UNCHANGED poolVars
                   /\ UNCHANGED histVars
           ELSE /\ ReturnHistory(handle)
                /\ lastOp' = Call("Return", handle, FALSE, "ok")
                /\ UNCHANGED poolVars
                /\ UNCHANGED crashed

\* Return on a pool whose mRecords is null (after a bad_alloc): line 284 reads
\* through the null pointer
ReturnNullDeref(handle) ==
    /\ ~crashed
    /\ handle.mIndex < mCapacity
    /\ mRecordsNull
    /\ crashed' = TRUE
    /\ lastOp' = Call("Return", handle, FALSE, "crash")
    /\ UNCHANGED poolVars
    /\ UNCHANGED histVars

\* ---- Clear (Pool.h 299-308) ----

\* DestroyObjects(mRecords, mCapacity) destructs the records that are neither
\* Free nor NotConstructed and frees the block; then every member is reset
Clear ==
    /\ ~crashed
    /\ epoch < MaxClears
    /\ ~(mRecordsNull /\ mCapacity > 0)
    /\ mFreeQueue' = <<>>
    /\ mRecords' = NullBlock
    /\ mRecordsNull' = TRUE
    /\ mCapacity' = 0
    /\ mGlobalStamp' = PoolStamp_Origin
    /\ mSpawnedCount' = 0
    /\ epoch' = epoch + 1
    /\ returned' = {}
    /\ matchedReturns' = 0
    /\ lastOp' = Call("Clear", DefaultHandle, FALSE, "ok")
    /\ UNCHANGED <<nodes, crashed, baseSize, issued>>

\* Clear on a pool whose mRecords is null while mCapacity > 0: DestroyObjects
\* reads ptr[0].mStamp through the null pointer (line 426)
ClearNullDeref ==
    /\ ~crashed
    /\ epoch < MaxClears
    /\ mRecordsNull /\ mCapacity > 0
    /\ crashed' = TRUE
    /\ lastOp' = Call("Clear", DefaultHandle, FALSE, "crash")
    /\ UNCHANGED poolVars
    /\ UNCHANGED histVars

\* ---- IsValid (Pool.h 313-317), At (326-330) ----

\* what a call IsValid(handle) can produce in the current state.
\*  - index in range, block readable: the comparison of line 316;
\*  - index in range, mRecords null: the read faults ("abort");
\*  - index out of range: the assert of line 315 aborts; a build with NDEBUG
\*    reads past the block, which faults when mRecords is null and yields
\*    whatever is stored there otherwise.
IsValidOutcomes(handle) ==
    IF handle.mIndex < mCapacity
    THEN IF mRecordsNull THEN {"abort"}
         ELSE {IF mRecords[handle.mIndex].mStamp = handle.mStamp THEN "true" ELSE "false"}
    ELSE IF mRecordsNull THEN {"abort"} ELSE {"abort", "true", "false"}

\* IsValid(handle) returns true
ReportedValid(handle) == "true" \in IsValidOutcomes(handle)

\* At(handle): the object stored at handle.mIndex
At(handle) == mRecords[handle.mIndex].mObject

IsValid(handle) ==
    /\ ~crashed
    /\ \E r \in IsValidOutcomes(handle) :
          /\ lastOp' = Call("IsValid", handle, FALSE, r)
          /\ crashed' = (r = "abort")
    /\ UNCHANGED poolVars
    /\ UNCHANGED histVars

\* ---- HandleByPointer (Pool.h 386-406) ----
\* Addresses are byte addresses. A value below 0 stands for the address
\* 2^64 + value that the 64-bit pointer arithmetic wraps to.

\* sizeof(PoolStamp), sizeof(T) and sizeof(PoolRecord<T>)
StampSize == 8

ObjectSize == 8

RecordSize == StampSize + ObjectSize

\* the address MemoryAlloc returns for a block
BlockBase == 64

\* the value of mRecords
RecordsAddr == IF mRecordsNull THEN 0 ELSE BlockBase

\* &base[i].mObject
SlotObjectAddr(base, i) == base + i * RecordSize + StampSize

\* &mRecords[i].mObject
ObjectAddr(i) == SlotObjectAddr(RecordsAddr, i)

\* p < q on pointers (unsigned comparison of the addresses)
PtrLess(p, q) == IF (p < 0) = (q < 0) THEN p < q ELSE q < 0

\* the test of line 389
PointerRejected(ptr) ==
    PtrLess(ptr, ObjectAddr(0)) \/ ~PtrLess(ptr, ObjectAddr(mCapacity - 1))

\* the address lies in the block mRecords points to
InBlock(addr) ==
    ~mRecordsNull /\ RecordsAddr <= addr /\ addr < RecordsAddr + mCapacity * RecordSize

\* the values a read of sizeof(PoolStamp) bytes at addr can yield: the stamp of
\* the record that starts there; any value when addr is not the start of a
\* record of the block ("fault" when the address is not readable)
StampReadAt(addr) ==
    IF InBlock(addr) /\ (addr - RecordsAddr) % RecordSize = 0
    THEN {[ret |-> "ok", stamp |-> mRecords[(addr - RecordsAddr) \div RecordSize].mStamp]}
    ELSE {[ret |-> "ok", stamp |-> s] : s \in PoolStamp_NotConstructed..PoolStamp_Origin}
         \cup (IF InBlock(addr) THEN {} ELSE {[ret |-> "fault", stamp |-> 0]})

\* what a call HandleByPointer(ptr) can produce: lines 389-405
HandleByPointerOutcomes(ptr) ==
    IF PointerRejected(ptr)
    THEN {[ret |-> "ok", h |-> DefaultHandle]}
    ELSE LET record == ptr - StampSize
             distance == record - RecordsAddr
             index == distance \div RecordSize
         IN  {IF r.ret = "ok"
              THEN [ret |-> "ok", h |-> PoolHandle(index, r.stamp)]
              ELSE [ret |-> "crash", h |-> DefaultHandle] : r \in StampReadAt(record)}

\* the pointers a caller passes: the addresses of the objects of a block at
\* BlockBase, from one slot below it to two slots past the current capacity
PointerValues == {SlotObjectAddr(BlockBase, i) : i \in (-1)..(mCapacity + 1)}

HandleByPointer(ptr) ==
    /\ ~crashed
    /\ \E r \in HandleByPointerOutcomes(ptr) :
          /\ lastOp' = Call("HandleByPointer", r.h, FALSE, r.ret)
          /\ crashed' = (r.ret = "crash")
    /\ UNCHANGED poolVars
    /\ UNCHANGED histVars

\* ---- begin, end (Pool.h 368-379) ----
\* Record pointers are given as offsets, in records, from mRecords.

\* begin(): mRecords
begin == 0

\* end(): mRecords + mCapacity - 1
end == mCapacity - 1

\* the slots "for (auto it = begin(); it != end(); ++it)" visits, in order.
\* With capacity 0 the iterator starts past end() and never meets it: the
\* loop runs off the block ("overrun").
IterationOutcome ==
    IF begin <= end
    THEN [ret |-> "ok", visited |-> PushRange(<<>>, begin, end)]
    ELSE [ret |-> "overrun", visited |-> <<>>]

\* a scan of the pool from begin() to end()
Iterate ==
    /\ ~crashed
    /\ lastOp' = Call("Iterate", DefaultHandle, FALSE, IterationOutcome.ret)
    /\ crashed' = (IterationOutcome.ret = "overrun")
    /\ UNCHANGED poolVars
    /\ UNCHANGED histVars

\* GetSpawnedCount, GetCapacity
GetSpawnedCount == mSpawnedCount

GetCapacity == mCapacity

\* ---- elements that return their children (Tests.cpp 107-139) ----
\* T = PoolableNode: the destructor calls mPool->Return(child) for each handle
\* in mChildren; AttachTo appends HandleByPointer(this) to the parent's list.
\* PoolableNode declares a destructor, so it has no move constructor: the
\* migration loop copies the object, mChildren included.

MaxChildren == 1    \* handles in one mChildren list
MaxNodes == 3       \* successful Spawn calls in one behaviour of SpecNodes

\* the pool as the nested calls of one operation see and change it; ub tells
\* that a destructor ran on storage holding no constructed object, or that
\* Return was given an index beyond the capacity
PoolState(recs, queue, count) ==
    [recs |-> recs, queue |-> queue, count |-> count, nodes |-> nodes, ub |-> FALSE]

\* mChildren of the object with identity e (zeroed storage holds an empty list)
ChildrenOf(P, e) == IF e = 0 THEN <<>> ELSE P.nodes[e].mChildren

\* the test of line 426: DestroyObjects destructs the records that are busy
ShouldDestroy(rec) ==
    rec.mStamp # PoolStamp_Free /\ rec.mStamp # PoolStamp_NotConstructed

RECURSIVE ReturnIn(_, _)
RECURSIVE ReturnEach(_, _)
RECURSIVE DestructAt(_, _)

\* ~PoolableNode(): Return(child) for each child, in the order of mChildren
ReturnEach(P, children) ==
    IF children = <<>> THEN P
    ELSE ReturnEach(ReturnIn(P, Head(children)), Tail(children))

\* mRecords[index].mObject.~T(): the destructor of the object in the slot runs
DestructAt(P, index) ==
    LET rec == P.recs[index]
        P1 == [P EXCEPT !.recs[index].constructed = FALSE,
                        !.nodes = IF rec.mObject = 0 THEN @
                                  ELSE [@ EXCEPT ![rec.mObject].destructed = @ + 1],
                        !.ub = @ \/ ~rec.constructed]
    IN  ReturnEach(P1, ChildrenOf(P, rec.mObject))

\* Return(handle), lines 282-292, called from anywhere: the slot is marked Free,
\* then the destructor runs (and returns the children), then the count drops
\* and the index is pushed
ReturnIn(P, handle) ==
    IF handle.mIndex \notin DOMAIN P.recs
    THEN [P EXCEPT !.ub = TRUE]
    ELSE IF P.recs[handle.mIndex].mStamp = PoolStamp_Free
         THEN P
         ELSE LET P1 == DestructAt([P EXCEPT !.recs[handle.mIndex].mStamp = PoolStamp_Free],
                                   handle.mIndex)
              IN  [P1 EXCEPT !.count = @ - 1,
                             !.queue = Append(@, handle.mIndex)]

\* the loop of DestroyObjects(mRecords, count) from slot i on: the stamp of a
\* destructed record is left as it is
RECURSIVE DestroyObjects(_, _, _)
DestroyObjects(P, i, count) ==
    IF i >= count THEN P
    ELSE DestroyObjects(IF ShouldDestroy(P.recs[i]) THEN DestructAt(P, i) ELSE P,
                        i + 1, count)

\* the loop of DestroyObjects(old, oldCapacity) at the end of a growth: the
\* objects left in the old block are destructed while mRecords and mCapacity
\* are already the new ones, so their destructors return into the new block
RECURSIVE DestroyOld(_, _, _, _)
DestroyOld(P, old, i, count) ==
    IF i >= count THEN P
    ELSE DestroyOld(IF ShouldDestroy(old[i])
                    THEN ReturnEach(P, ChildrenOf(P, old[i].mObject))
                    ELSE P,
                    old, i + 1, count)

\* an operation that met undefined behaviour may also end the process
NodeCrash(op, handle) ==
    /\ crashed' = TRUE
    /\ lastOp' = Call(op, handle, FALSE, "crash")
    /\ UNCHANGED poolVars
    /\ UNCHANGED histVars

\* child.AttachTo(parent) on two valid handles Spawn issued (Tests.cpp 135-139)
AttachTo(child, parent) ==
    /\ ~crashed
    /\ ~mRecordsNull
    /\ \A h \in {child, parent} :
          /\ h.mStamp >= PoolStamp_Origin
          /\ h.mIndex < mCapacity
          /\ mRecords[h.mIndex].mStamp = h.mStamp
    /\ Len(nodes[At(parent)].mChildren) < MaxChildren
    /\ \E r \in HandleByPointerOutcomes(ObjectAddr(child.mIndex)) :
          IF r.ret = "ok"
          THEN /\ nodes' = [nodes EXCEPT ![At(parent)].mChildren = Append(@, r.h)]
               /\ lastOp' = Call("AttachTo", r.h, FALSE, "ok")
               /\ UNCHANGED <<mSpawnedCount, mGlobalStamp, mRecords, mRecordsNull,
                              mCapacity, mFreeQueue, crashed>>
               /\ UNCHANGED histVars
          ELSE NodeCrash("AttachTo", child)

\* Return(handle) from the caller, handle.mIndex < mCapacity
ReturnNode(handle) ==
    /\ ~crashed
    /\ handle.mIndex < mCapacity
    /\ ~mRecordsNull
    /\ LET P == ReturnIn(PoolState(mRecords, mFreeQueue, mSpawnedCount), handle)
       IN  \/ /\ mRecords' = P.recs
              /\ mFreeQueue' = P.queue
              /\ mSpawnedCount' = P.count
              /\ nodes' = P.nodes
              /\ ReturnHistory(handle)
              /\ lastOp' = Call("Return", handle, FALSE, "ok")
              /\ UNCHANGED <<mGlobalStamp, mRecordsNull, mCapacity, crashed>>
           \/ /\ P.ub
              /\ NodeCrash("Return", handle)

\* Clear(), also run by ~Pool(): lines 301-307
ClearNode ==
    /\ ~crashed
    /\ epoch < MaxClears
    /\ ~(mRecordsNull /\ mCapacity > 0)
    /\ LET P == DestroyObjects(PoolState(mRecords, mFreeQueue, mSpawnedCount), 0, mCapacity)
       IN  \/ /\ mFreeQueue' = <<>>
              /\ mRecords' = NullBlock
              /\ mRecordsNull' = TRUE
              /\ mCapacity' = 0
              /\ mGlobalStamp' = PoolStamp_Origin
              /\ mSpawnedCount' = 0
              /\ nodes' = P.nodes
              /\ epoch' = epoch + 1
              /\ returned' = {}
              /\ matchedReturns' = 0
              /\ lastOp' = Call("Clear", DefaultHandle, FALSE, "ok")
              /\ UNCHANGED <<crashed, baseSize, issued>>
           \/ /\ P.ub
              /\ NodeCrash("Clear", DefaultHandle)

\* Spawn with an empty free queue, MemoryAlloc succeeding: lines 231-273
SpawnGrowNode ==
    /\ ~crashed
    /\ Len(issued) < MaxSpawns
    /\ mFreeQueue = <<>>
    /\ GrowCapacity(mCapacity) <= MaxCapacity
    /\ ~(mRecordsNull /\ mCapacity > 0)
    /\ LET oldCapacity == mCapacity
           newCapacity == GrowCapacity(mCapacity)
           P == DestroyOld(PoolState(MoveRecords(mRecords, oldCapacity, newCapacity),
                                     PushRange(mFreeQueue, oldCapacity, newCapacity),
                                     mSpawnedCount),
                           mRecords, 0, oldCapacity)
           index == GetFreeIndex(P.queue)
           elem == Len(issued) + 1
           stamp == MakeStamp
       IN  \/ /\ mFreeQueue' = Tail(P.queue)
              /\ mRecords' = [P.recs EXCEPT ![index] =
                                 [mStamp |-> stamp, mObject |-> elem, mOwner |-> ThisPool,
                                  constructed |-> TRUE]]
              /\ mRecordsNull' = FALSE
              /\ mCapacity' = newCapacity
              /\ mGlobalStamp' = NextStamp(mGlobalStamp)
              /\ mSpawnedCount' = P.count + 1
              /\ nodes' = P.nodes
              /\ issued' = Append(issued, [mIndex |-> index, mStamp |-> stamp, epoch |-> epoch])
              /\ lastOp' = Call("Spawn", PoolHandle(index, stamp), TRUE, "ok")
              /\ UNCHANGED <<crashed, baseSize, epoch, returned, matchedReturns>>
           \/ /\ P.ub
              /\ NodeCrash("Spawn", DefaultHandle)

Next ==
    \/ SpawnReuse
    \/ SpawnGrow
    \/ SpawnBadAlloc
    \/ SpawnNullDeref
    \/ \E handle \in HandleValues : Return(handle)
    \/ \E handle \in HandleValues : ReturnNullDeref(handle)
    \/ Clear
    \/ ClearNullDeref
    \/ \E handle \in HandleValues : IsValid(handle)
    \/ \E ptr \in PointerValues : HandleByPointer(ptr)
    \/ Iterate

Spec == Init /\ [][Next]_vars

\* The pool under Spawn, Return and Clear alone, with runs of failed growths
\* followed up to MaxFailedCapacity: the capacities GrowCapacity is applied to
\* reach the range where the float product is rounded.
NextGrowth ==
    \/ SpawnReuse
    \/ SpawnGrow
    \/ SpawnBadAlloc
    \/ SpawnBadAllocFar
    \/ SpawnNullDeref
    \/ \E handle \in HandleValues : Return(handle)
    \/ \E handle \in HandleValues : ReturnNullDeref(handle)
    \/ Clear
    \/ ClearNullDeref

SpecGrowth == Init /\ [][NextGrowth]_vars

\* The pool holding PoolableNode elements: callers spawn, attach children to
\* parents, return and clear with the handles they hold.
NextNodes ==
    \/ Len(issued) < MaxNodes /\ SpawnReuse
    \/ Len(issued) < MaxNodes /\ SpawnGrowNode
    \/ \E child, parent \in HandleValues : AttachTo(child, parent)
    \/ \E handle \in HandleValues : ReturnNode(handle)
    \/ ClearNode

SpecNodes == Init /\ [][NextNodes]_vars

\* ---- vocabulary of the properties ----

\* IsValid(handle) returns, and returns true / false
IsValidTrue(handle) == IsValidOutcomes(handle) = {"true"}

IsValidFalse(handle) == IsValidOutcomes(handle) = {"false"}

\* the handle values Spawn has issued since the last Clear
CurrentHandles == {HandleOf(e) : e \in CurrentElems}

\* the step is a call of op that returned normally
Returned(op) == lastOp'.op = op /\ lastOp'.ret = "ok"

\* ---- C1 ----
\* C1: a handle issued by Spawn (since the last Clear) that IsValid reports
\* valid designates the record that holds the element its Spawn constructed,
\* still constructed: never a later occupant, never a destructed element.
C1_ValidHandleHoldsItsElement ==
    \A e \in CurrentElems :
        ReportedValid(HandleOf(e)) =>
            /\ mRecords[issued[e].mIndex].mObject = e
            /\ mRecords[issued[e].mIndex].constructed

\* a valid handle on an index that an earlier, returned element occupied
C1_Witness ==
    \E e \in CurrentElems : \E d \in CurrentElems :
        /\ d < e
        /\ issued[d].mIndex = issued[e].mIndex
        /\ HandleOf(d) \in returned
        /\ IsValidTrue(HandleOf(e))

\* ---- C2 ----
\* C2: Return(h) with h.index < capacity and a stamp that differs from the
\* record's current stamp is a no-op: records, count and free queue unchanged
\* (stated for the stale handles Spawn issued since the last Clear).
C2_StaleReturnIsNoOp ==
    [][(/\ Returned("Return")
        /\ lastOp'.h \in CurrentHandles
        /\ lastOp'.h.mStamp # mRecords[lastOp'.h.mIndex].mStamp)
          => UNCHANGED <<mRecords, mSpawnedCount, mFreeQueue>>]_vars

\* ---- C3 ----
\* C3: a handle issued by Spawn is valid from its Spawn until Return(h) and
\* invalid for ever after Return(h) (stated between two Clear calls, for a
\* pool whose block is allocated and Return calls on issued handles only).
C3_ValidUntilReturned ==
    (~mRecordsNull /\ returned \subseteq CurrentHandles) =>
        \A e \in CurrentElems :
            IF HandleOf(e) \in returned
            THEN IsValidFalse(HandleOf(e))
            ELSE IsValidTrue(HandleOf(e))

\* ---- C4 ----
\* C4: GetSpawnedCount() = (Spawn calls) - (Return calls whose handle carried
\* the record's current stamp), for Return calls on handles Spawn issued.
C4_CountIsSpawnsMinusMatchedReturns ==
    (returned \subseteq CurrentHandles) =>
        GetSpawnedCount = Cardinality(CurrentElems) - matchedReturns

\* ---- C5 ----
\* C5: between two Clear calls the stamps Spawn issues are strictly increasing
\* and never a sentinel, so no two handles share (index, stamp) and a reused
\* index gets a stamp above every stamp it held before.
C5_StampsStrictlyIncrease ==
    /\ \A e \in DOMAIN issued : issued[e].mStamp >= PoolStamp_Origin
    /\ \A d \in DOMAIN issued : \A e \in DOMAIN issued :
          (d < e /\ issued[d].epoch = issued[e].epoch) =>
              issued[d].mStamp < issued[e].mStamp

\* an index handed out twice since the last Clear, after an earlier Clear
C5_Witness ==
    /\ epoch > 0
    /\ \E d \in CurrentElems : \E e \in CurrentElems :
          d < e /\ issued[d].mIndex = issued[e].mIndex

C7_BadAllocLeavesPoolUntouched ==
    [][(lastOp'.op = "Spawn" /\ lastOp'.ret = "bad_alloc") => UNCHANGED poolVars]_vars

\* ---- C8 ----
\* C8: no handle issued before a Clear is reported valid after that Clear.
C8_ClearInvalidatesHandles ==
    \A e \in DOMAIN issued :
        issued[e].epoch < epoch => ~ReportedValid(HandleOf(e))

\* ---- C9 ----
\* C9: Clear, called in any state, returns and leaves count 0, capacity 0, an
\* empty free queue and the stamp counter at its origin.
C9_ClearResetsPool ==
    lastOp.op = "Clear" =>
        /\ lastOp.ret = "ok"
        /\ GetSpawnedCount = 0
        /\ GetCapacity = 0
        /\ mFreeQueue = <<>>
        /\ mGlobalStamp = PoolStamp_Origin

\* ---- C10 ----
\* C10: IsValid(h) with h.index >= capacity returns false.
C10_OutOfRangeIsInvalid ==
    (lastOp.op = "IsValid" /\ lastOp.h.mIndex >= mCapacity) => lastOp.ret = "false"

\* ---- C11 ----
\* C11: the default-constructed handle is invalid: whenever the pool has at
\* least one slot, IsValid(PoolHandle()) is false (stated for behaviours in
\* which the default handle itself was never passed to Return).
C11_DefaultHandleIsInvalid ==
    (mCapacity >= 1 /\ ~mRecordsNull /\ DefaultHandle \notin returned) =>
        IsValidFalse(DefaultHandle)

\* ---- C12 ----
\* C12: for every slot that holds a live element, HandleByPointer applied to
\* the address of that element returns the handle (index of the slot, current
\* stamp of the slot).
C12_PointerRoundTrip ==
    ~mRecordsNull =>
        \A i \in DOMAIN mRecords :
            (mRecords[i].mStamp >= PoolStamp_Origin /\ mRecords[i].constructed) =>
                HandleByPointerOutcomes(ObjectAddr(i)) =
                    {[ret |-> "ok", h |-> PoolHandle(i, mRecords[i].mStamp)]}

\* ---- C13 ----
\* C13: HandleByPointer given an address outside the allocated slot storage
\* returns the default-constructed handle.
C13_OutsidePointerRejected ==
    \A ptr \in PointerValues :
        ~InBlock(ptr) =>
            HandleByPointerOutcomes(ptr) = {[ret |-> "ok", h |-> DefaultHandle]}

\* ---- C14 ----
\* C14: iterating from begin() to end() visits every slot 0 .. capacity-1
\* exactly once, in order (stated for a scan of a pool with at least one slot).
C14_IterationVisitsEverySlot ==
    (lastOp.op = "Iterate" /\ mCapacity >= 1) =>
        /\ IterationOutcome.ret = "ok"
        /\ IterationOutcome.visited = PushRange(<<>>, 0, mCapacity)

\* a record whose stamp is a live generation (neither NotConstructed nor Free)
IsLive(rec) == rec.mStamp # PoolStamp_NotConstructed /\ rec.mStamp # PoolStamp_Free

\* the indices waiting in the free queue
QueuedIndices == {mFreeQueue[k] : k \in DOMAIN mFreeQueue}

\* ---- C15 ----
\* C15: a record's stamp is live exactly when the record holds a constructed,
\* not yet destructed element; Return runs the destructor only on a
\* constructed element, and Spawn never constructs over an element that has
\* not been destructed.
C15_LiveIffConstructed ==
    /\ [](\A i \in DOMAIN mRecords : IsLive(mRecords[i]) <=> mRecords[i].constructed)
    /\ [][/\ (Returned("Return") /\ mRecords' # mRecords) =>
                mRecords[lastOp'.h.mIndex].constructed
          /\ (Returned("Spawn") /\ ~lastOp'.grew) =>
                ~mRecords[lastOp'.h.mIndex].constructed]_vars

\* ---- C16 ----
\* C16: the index of a record whose stamp is live is not in the free queue.
C16_LiveIndexNotQueued ==
    \A i \in DOMAIN mRecords : IsLive(mRecords[i]) => i \notin QueuedIndices

\* ---- C17 ----
\* C17: GetCapacity() is non-decreasing over the pool's life: no operation
\* leaves it smaller than it was.
C17_CapacityNeverDecreases ==
    [][GetCapacity' >= GetCapacity]_vars

\* C17 (amended): every operation other than Clear leaves GetCapacity() at
\* least what it was; Clear sets it to 0.
C17_CapacityDecreasesOnlyOnClear ==
    [][IF lastOp'.op = "Clear" /\ lastOp'.ret = "ok"
       THEN GetCapacity' = 0
       ELSE GetCapacity' >= GetCapacity]_vars

\* the pool has grown again after a Clear
C17_Witness ==
    /\ epoch > 0
    /\ lastOp.op = "Spawn" /\ lastOp.grew
    /\ GetCapacity >= 2

\* ---- C18 ----

\* ceil(c * 1.618) in exact arithmetic, and the capacity the claim states
CeilGrow(c) ==
    c + (c \div GrowRateDen) * (GrowRateNum - GrowRateDen)
      + ((c % GrowRateDen) * (GrowRateNum - GrowRateDen) + GrowRateDen - 1) \div GrowRateDen

ClaimedCapacity(c) == IF CeilGrow(c) > 1 THEN CeilGrow(c) ELSE 1

\* a Spawn call that ended by returning a handle or by throwing bad_alloc
SpawnEnded == lastOp'.op = "Spawn" /\ lastOp'.ret \in {"ok", "bad_alloc"}

\* what the claim says of a Spawn beside the value of the new capacity: the
\* capacity changes only when the free list is empty and then increases; a
\* Spawn that grew and returned has added oldCapacity .. newCapacity-1 in
\* ascending order (and handed out the first); a Spawn that found the free
\* list not empty leaves the capacity and every other slot unchanged
SpawnFrame ==
    /\ mCapacity' # mCapacity => mFreeQueue = <<>> /\ mCapacity' > mCapacity
    /\ Returned("Spawn") /\ mFreeQueue = <<>> =>
          /\ lastOp'.h.mIndex = mCapacity
          /\ mFreeQueue' = Tail(PushRange(<<>>, mCapacity, mCapacity'))
    /\ Returned("Spawn") /\ mFreeQueue # <<>> =>
          /\ mCapacity' = mCapacity
          /\ \A i \in DOMAIN mRecords :
                i # lastOp'.h.mIndex => mRecords'[i] = mRecords[i]

\* C18 (as stated): Spawn changes the capacity only when the free list is
\* empty; it then sets it to max(1, ceil(oldCapacity * 1.618)), strictly
\* greater than oldCapacity, and adds exactly oldCapacity .. newCapacity-1 to
\* the free list in ascending order; otherwise it leaves the capacity and every
\* slot but the one handed out unchanged.
C18_GrowsByExactCeiling ==
    [][SpawnEnded =>
          /\ SpawnFrame
          /\ mCapacity' # mCapacity => mCapacity' = ClaimedCapacity(mCapacity)]_vars

\* What holds of the code in place of C18: the same, the new capacity being
\* max(1, ceil(oldCapacity * 1.618)) for every oldCapacity below 40589; from
\* there on the float product is rounded before ceil is applied to it.
C18_GrowsByFloatCeiling ==
    [][SpawnEnded =>
          /\ SpawnFrame
          /\ mCapacity' # mCapacity /\ mCapacity < 40589 =>
                mCapacity' = ClaimedCapacity(mCapacity)]_vars

\* a Spawn grew a full pool of two slots to four and handed out slot 2
C18_Witness ==
    /\ lastOp.op = "Spawn" /\ lastOp.ret = "ok" /\ lastOp.grew
    /\ mCapacity = 4
    /\ lastOp.h.mIndex = 2
    /\ mFreeQueue = <<3>>

\* ---- C19 ----

\* the state the constructor leaves, baseSize being its argument
FreshPool ==
    /\ GetCapacity = baseSize
    /\ GetSpawnedCount = 0
    /\ DOMAIN mRecords = 0..(baseSize - 1)
    /\ \A i \in DOMAIN mRecords : mRecords[i].mStamp = PoolStamp_NotConstructed
    /\ Len(mFreeQueue) = baseSize
    /\ \A k \in 1..Len(mFreeQueue) : mFreeQueue[k] = k - 1

\* C19: Pool(n) yields capacity n, count 0, every slot NotConstructed and the
\* free list 0 .. n-1 in ascending order; each of the first n Spawn calls
\* after it returns without growth, the k-th of them the index k-1.
C19_ConstructorPreallocates ==
    /\ [](lastOp.op = "Pool" => FreshPool)
    /\ [][lastOp'.op = "Spawn" /\ epoch = 0 /\ Len(issued) < baseSize =>
             /\ Returned("Spawn")
             /\ ~lastOp'.grew
             /\ GetCapacity' = baseSize
             /\ lastOp'.h.mIndex = Len(issued)]_vars

\* Pool(2) has answered its first two Spawn calls
C19_Witness ==
    /\ baseSize = 2
    /\ epoch = 0
    /\ Len(issued) = 2
    /\ lastOp.op = "Spawn"
    /\ issued[2].mIndex = 1

\* ---- C20 ----

\* Poolable<T>::ParentPool() of the object in slot i
ParentPool(i) == mRecords[i].mOwner

\* C20: T deriving from Poolable<T>, the ParentPool() of every live element is
\* the pool that spawned it, from the return of Spawn until the element is
\* returned or cleared, growths that relocate it included.
C20_ParentPoolIsOwner ==
    \A i \in DOMAIN mRecords :
        IsLive(mRecords[i]) /\ mRecords[i].constructed => ParentPool(i) = ThisPool

\* the first element of Pool(0) is live in a block of four slots: it has been
\* relocated by the growths 1 -> 2 and 2 -> 4
C20_Witness ==
    /\ baseSize = 0
    /\ epoch = 0
    /\ mCapacity = 4
    /\ ~mRecordsNull
    /\ IsValidTrue(HandleOf(1))
    /\ At(HandleOf(1)) = 1
    /\ ParentPool(0) = ThisPool

\* ---- C21 ----

\* the slots whose stamp is a live generation
LiveSlots == {i \in DOMAIN mRecords : IsLive(mRecords[i])}

\* the block exists whenever the capacity is not 0 (no growth has failed)
BlockAllocated == ~(mRecordsNull /\ mCapacity > 0)

\* C21: in every state reached by Spawn, Return and Clear with any handle of
\* index < capacity, GetSpawnedCount() is the number of live slots and free
\* list length + count = capacity: the count stays within 0 .. capacity, the
\* free list holds no index twice, and growth happens only when every slot
\* is live.
C21_CountMatchesLiveSlots ==
    /\ [](~crashed /\ BlockAllocated =>
            /\ GetSpawnedCount = Cardinality(LiveSlots)
            /\ Len(mFreeQueue) + GetSpawnedCount = GetCapacity
            /\ GetSpawnedCount >= 0
            /\ GetSpawnedCount <= GetCapacity
            /\ Cardinality(QueuedIndices) = Len(mFreeQueue))
    /\ [][Returned("Spawn") /\ lastOp'.grew =>
             Cardinality(LiveSlots) = mCapacity]_vars

\* ---- C22 ----

\* the elements the pool holds: a live stamp on a constructed object
LiveElems ==
    {mRecords[i].mObject : i \in {j \in DOMAIN mRecords :
                                     IsLive(mRecords[j]) /\ mRecords[j].constructed}}

\* the handle of the element in slot i
SlotHandle(i) == PoolHandle(i, mRecords[i].mStamp)

\* every child handle held by a live element was obtained for another live
\* element of the pool
ProperChildren ==
    \A i \in DOMAIN mRecords :
        IsLive(mRecords[i]) /\ mRecords[i].constructed =>
            \A k \in DOMAIN nodes[mRecords[i].mObject].mChildren :
                LET child == nodes[mRecords[i].mObject].mChildren[k]
                IN  /\ child.mStamp >= PoolStamp_Origin
                    /\ child # SlotHandle(i)
                    /\ child.mIndex \in DOMAIN mRecords
                    /\ mRecords[child.mIndex].mStamp = child.mStamp

\* C22: with elements whose destructor returns their children, Clear (and the
\* destruction of the pool, which is Clear) runs the destructor of each live
\* element exactly once, whatever the order of the indices of a parent and
\* its children, and a growth neither returns nor destructs a live element.
C22_ChildrenDestructedOnce ==
    [][ProperChildren =>
          /\ Returned("Clear") =>
                \A e \in LiveElems : nodes'[e].destructed = 1
          /\ Returned("Spawn") /\ lastOp'.grew =>
                \A i \in DOMAIN mRecords :
                    IsLive(mRecords[i]) /\ mRecords[i].constructed =>
                        /\ mRecords'[i].mStamp = mRecords[i].mStamp
                        /\ mRecords'[i].mObject = mRecords[i].mObject
                        /\ nodes'[mRecords[i].mObject].destructed = 0]_vars

\* ---- C23 ----

\* C23: the free list is FIFO. A Spawn takes the index at the front, the one
\* that has waited longest, and leaves the others in their order; a Return
\* and a growth put their indices at the back, behind every index already
\* waiting. Returned indices are thus reused in the order of their return.
C23_FreeListIsFifo ==
    [][/\ Returned("Spawn") /\ ~lastOp'.grew =>
             /\ lastOp'.h.mIndex = Head(mFreeQueue)
             /\ mFreeQueue' = Tail(mFreeQueue)
       /\ Returned("Spawn") /\ lastOp'.grew =>
             /\ mFreeQueue = <<>>
             /\ <<lastOp'.h.mIndex>> \o mFreeQueue' = PushRange(<<>>, mCapacity, mCapacity')
       /\ Returned("Return") =>
             \/ mFreeQueue' = mFreeQueue
             \/ mFreeQueue' = mFreeQueue \o <<lastOp'.h.mIndex>>]_vars

\* slots 1 and 0 of Pool(2) were returned in that order, and the next Spawn has
\* reused slot 1 while slot 0 still waits
C23_Witness ==
    /\ baseSize = 2
    /\ Len(issued) = 3
    /\ lastOp.op = "Spawn" /\ lastOp.ret = "ok"
    /\ lastOp.h.mIndex = 1
    /\ mFreeQueue = <<0>>
    /\ mCapacity = 2

\* ---- C24 ----

\* how many times index waits in the free queue
TimesQueued(queue, index) == Cardinality({k \in DOMAIN queue : queue[k] = index})

\* C24: for a valid handle h, Return(h) leaves the slot Free, its index in the
\* free list once and the count lower by exactly 1, and a second Return(h)
\* right after it changes nothing.
C24_ReturnTwiceIsReturnOnce ==
    [][Returned("Return") =>
          /\ IsValidTrue(lastOp'.h) =>
                /\ mRecords'[lastOp'.h.mIndex].mStamp = PoolStamp_Free
                /\ TimesQueued(mFreeQueue', lastOp'.h.mIndex) = 1
                /\ GetSpawnedCount' = GetSpawnedCount - 1
          /\ lastOp.op = "Return" /\ lastOp.ret = "ok" /\ lastOp.h = lastOp'.h =>
                UNCHANGED poolVars]_vars

\* ---- C25 ----

\* the elements whose destructor ran during the step
DestructedNow == {e \in DOMAIN nodes : nodes'[e].destructed > nodes[e].destructed}

\* the handle is valid in the state after the step
ValidAfter(h) ==
    h.mIndex < mCapacity' /\ ~mRecordsNull' /\ mRecords'[h.mIndex].mStamp = h.mStamp

\* the handles a Return(h) reaches: h and, through the mChildren lists of the
\* elements that valid handles designate, their children
RECURSIVE Reached(_, _)
Reached(hs, n) ==
    IF n = 0 THEN hs
    ELSE Reached(hs \cup UNION {{nodes[At(h)].mChildren[k] : k \in DOMAIN nodes[At(h)].mChildren} :
                                h \in {g \in hs : IsValidTrue(g) /\ At(g) # 0}},
                 n - 1)

\* C25: Return(h) marks the slot Free before the destructor runs, so a
\* destructor that returns child handles terminates even on a cycle back to h;
\* afterwards h and every child that was valid are invalid, each of them was
\* destructed once, and the count dropped by the number of elements destructed.
\* Stated for the valid handles h that Spawn issued.
C25_ReentrantReturn ==
    [][Returned("Return") /\ IsValidTrue(lastOp'.h)
                          /\ lastOp'.h.mStamp >= PoolStamp_Origin =>
          /\ \A g \in Reached({lastOp'.h}, MaxNodes) :
                IsValidTrue(g) =>
                    /\ ~ValidAfter(g)
                    /\ nodes'[At(g)].destructed = nodes[At(g)].destructed + 1
          /\ \A e \in DestructedNow : nodes'[e].destructed = nodes[e].destructed + 1
          /\ GetSpawnedCount' = GetSpawnedCount - Cardinality(DestructedNow)]_vars
====
